---- MODULE Spec2Model ----
(***************************************************************************)
(* Chess 2 - authoritative game server (server.js) and the client-side     *)
(* move validator (ChessGame).  The server state is gameState.players,     *)
(* gameState.board, gameState.nextPlayerIndex and, per socket, the         *)
(* playerId bound to it.  Every socket.io handler is one atomic action     *)
(* (node runs each handler to completion).                                 *)
(***************************************************************************)
EXTENDS Integers, Sequences, FiniteSets, TLC

VARIABLES
    sockets,          \* connection -> [status, playerId]   (socket.playerId)
    players,          \* gameState.players : playerId -> player record
    board,            \* gameState.board   : key -> piece record
    nextPlayerIndex,  \* gameState.nextPlayerIndex
    spawnLog,         \* the spawn positions returned by findSpawnPosition, in join order
    emitted,          \* the messages emitted by the handler that ran last, none once time has passed
    now,              \* Date.now() of the server, in milliseconds since it started
    verdict,          \* the last call of the ChessGame validator: its arguments and its result
    search,           \* the call of findSpawnPosition in progress: its loop variables
    inbox,            \* the messages sent to the observed browser and not yet handled by it
    client            \* the observed browser: its Chess2App, GameBoard and GameUI fields

vars == <<sockets, players, board, nextPlayerIndex, spawnLog, emitted, now, verdict, search,
          inbox, client>>

----------------------------------------------------------------------------
(* Bounds of the model *)

MaxConns == 2          \* connections that may ever be opened
MaxJoins == 2          \* joins per behaviour of Spec (caps nextPlayerIndex)
MaxJoinsOnly == 3      \* joins per behaviour of SpecJoins
MaxJoinsEvac == 3      \* joins per behaviour of SpecEvac
MaxConnsFull == 101    \* connections of SpecFull: one more than the server admits
MaxJoinsMalformed == 2 \* joins per behaviour of SpecMalformed
MaxJoinsCooldown == 2  \* joins per behaviour of SpecCooldown
MaxJoinsFallback == 2  \* joins per behaviour of SpecFallback
MaxJoinsMirror == 2    \* joins per behaviour of SpecMirror
MaxInFlight == 2       \* messages on their way to the observed browser
MaxJoinsClient == 1    \* joins per behaviour of SpecClient
MaxTicksClient == 5    \* cooldown periods that pass in a behaviour of SpecClient
MaxTicks == 2          \* cooldown periods that pass in a behaviour of SpecCooldown
MaxDelta == 3          \* largest |dx|, |dy| of the moves given to the validator

Conns == 1 .. MaxConns

(* Program constants *)

MAX_PLAYERS == 100
SPAWN_MIN_DISTANCE == 25
maxAttempts == 10000
PALETTE_SIZE == 24
COLOR_COUNT == 100
COOLDOWN_MS == 3000    \* the cooldown the client starts after its own move

NoPlayer == 0          \* socket.playerId / piece.playerId undefined
NoVerdict == [fn |-> "none"]
NoSearch == [phase |-> "idle"]
null == {}             \* a field that holds null or one object is the set of what it holds
NoClient == [currentPlayer |-> null, players |-> << >>, pieces |-> << >>,
             selectedPiece |-> null, validMoves |-> {},
             isOnCooldown |-> FALSE, cooldownEndTime |-> 0,
             duplicatingPawns |-> << >>, selectedPawnForDuplication |-> null]

(* Values of a payload field that are not integers.  A coordinate is an     *)
(* integer of the model; the two values below stand for a missing field     *)
(* (undefined) and for the number 1.5, and lie outside every coordinate a   *)
(* piece can get from a spawn.                                              *)
undefined == 1000000
oneAndHalf == 1000001
NotIntegers == {undefined, oneAndHalf}
EmptyMap == [k \in {} |-> 0]

----------------------------------------------------------------------------
(* Coordinate keys: `${x},${y}` of two integers, and key.split(',').map(Number) *)

Key(x, y) == <<x, y>>

ParseKey(k) == [x |-> k[1], y |-> k[2]]

(* Map.prototype.set / delete on a map held as a function *)

MapSet(m, k, v) == [kk \in (DOMAIN m) \cup {k} |-> IF kk = k THEN v ELSE m[kk]]

MapDelete(m, k) == [kk \in (DOMAIN m) \ {k} |-> m[kk]]

----------------------------------------------------------------------------
(* PLAYER_COLORS: 24 curated colors, then hsl(floor((i * 137.508) % 360), 70%, 50%) *)

PLAYER_COLORS(i) ==
    IF i < PALETTE_SIZE
    THEN <<"hex", i>>
    ELSE <<"hsl", ((i * 137508) % 360000) \div 1000>>

----------------------------------------------------------------------------
(* Math.round(radius * Math.cos(angle)) for the angles the spiral visits.  *)
(* angle is advanced by Math.PI / 8 from 0 and reset once it exceeds       *)
(* 2 * Math.PI, which in IEEE doubles happens after the 16th addition, so  *)
(* a revolution visits the 16 angles k * pi / 8, k = 0 .. 15.  Cos8 and    *)
(* Sin8 hold cos and sin of these angles scaled by 10^8.                   *)

Cos8 == << 100000000,  92387953,  70710678,  38268343, 0, -38268343, -70710678, -92387953,
          -100000000, -92387953, -70710678, -38268343, 0,  38268343,  70710678,  92387953 >>

Sin8 == << 0,  38268343,  70710678,  92387953,  100000000,  92387953,  70710678,  38268343,
           0, -38268343, -70710678, -92387953, -100000000, -92387953, -70710678, -38268343 >>

AnglesPerTurn == 16

(* Math.round(r * c / 10^8), rounding half up, in 32-bit safe steps *)
RoundMul(r, c) ==
    LET H  == c \div 10000
        L  == c % 10000
        rh == r * H
        a  == rh \div 10000
        b  == rh % 10000
        F  == b * 10000 + r * L
    IN  a + ((F + 50000000) \div 100000000)

(* Math.sqrt(dx^2 + dy^2) >= d, for integers *)
DistSq(x1, y1, x2, y2) == (x1 - x2) * (x1 - x2) + (y1 - y2) * (y1 - y2)

----------------------------------------------------------------------------
(* findSpawnPosition *)

(* positions of all pieces on the board that carry a playerId (lines 50-55) *)
existingPositions(b) ==
    { ParseKey(k) : k \in { kk \in DOMAIN b : b[kk].playerId # NoPlayer } }

(* mutant: .some in place of .every *)
validPositionSome(x, y, positions, minDistance) ==
    \E pos \in positions :
        DistSq(x, y, pos.x, pos.y) >= minDistance * minDistance

(* existingPositions.every(pos => dist >= minDistance) (lines 73-76) *)
validPosition(x, y, positions, minDistance) ==
    \A pos \in positions :
        DistSq(x, y, pos.x, pos.y) >= minDistance * minDistance

(* radius += Math.min(5, minDistance / 4); the quotient is exact for the    *)
(* distances used (25 gives the step 5)                                    *)
radiusStep(minDistance) == IF 5 * 4 <= minDistance THEN 5 ELSE minDistance \div 4

(* the fallback scan (lines 93-113): testRadius = minDistance, +5, ... below *)
(* 3 * minDistance; testAngle = 0, +PI/4, ... below 2 * PI (8 angles, every  *)
(* second entry of the table); the first candidate with the largest minimum *)
(* distance wins, (0,0) if none has a positive one.                         *)
fallbackCandidates(minDistance) ==
    LET nr == ((3 * minDistance - minDistance) + 4) \div 5
    IN  [ i \in 1 .. (nr * 8) |->
            LET testRadius == minDistance + 5 * ((i - 1) \div 8)
                a          == 2 * ((i - 1) % 8) + 1
            IN  [x |-> RoundMul(testRadius, Cos8[a]), y |-> RoundMul(testRadius, Sin8[a])] ]

(* Math.min(...existingPositions.map(distance)), as a squared distance *)
minDistanceToExisting(x, y, positions) ==
    CHOOSE d \in { DistSq(x, y, pos.x, pos.y) : pos \in positions } :
        \A pos \in positions : d <= DistSq(x, y, pos.x, pos.y)

RECURSIVE fallbackScan(_, _, _, _, _)
fallbackScan(cands, i, positions, bestPosition, maxMinDistance) ==
    IF i > Len(cands) THEN bestPosition
    ELSE LET d == minDistanceToExisting(cands[i].x, cands[i].y, positions)
         IN  IF d > maxMinDistance
             THEN fallbackScan(cands, i + 1, positions, cands[i], d)
             ELSE fallbackScan(cands, i + 1, positions, bestPosition, maxMinDistance)

(* the spiral search (lines 63-90); angle is the index of the angle in the table *)
RECURSIVE spiralSearch(_, _, _, _, _)
spiralSearch(positions, minDistance, angle, radius, attempts) ==
    IF attempts >= maxAttempts
    THEN fallbackScan(fallbackCandidates(minDistance), 1, positions, [x |-> 0, y |-> 0], 0)
    ELSE LET x == RoundMul(radius, Cos8[angle + 1])
             y == RoundMul(radius, Sin8[angle + 1])
         IN  IF validPosition(x, y, positions, minDistance)
             THEN [x |-> x, y |-> y]
             ELSE IF angle + 1 >= AnglesPerTurn
                  THEN spiralSearch(positions, minDistance, 0,
                                    radius + radiusStep(minDistance), attempts + 1)
                  ELSE spiralSearch(positions, minDistance, angle + 1, radius, attempts + 1)

(* Number(s) of a key part that is not numeric is NaN; every comparison     *)
(* with NaN is false and Math.min of a list holding NaN is NaN              *)
hasNaN(positions) == \E pos \in positions : pos.x = undefined \/ pos.y = undefined

(* mutant: the search starts one ring further out *)
findSpawnPositionNextRing(b, minDistance) ==
    LET positions == existingPositions(b)
    IN  IF positions = {}
        THEN [x |-> 0, y |-> 0]
        ELSE spiralSearch(positions, minDistance, 0, minDistance + radiusStep(minDistance), 0)

(* With a NaN among the positions no distance test of the spiral succeeds   *)
(* and no candidate of the fallback beats maxMinDistance, so the initial    *)
(* bestPosition (0,0) is returned (lines 73-76, 102-109).                   *)
findSpawnPosition(b, minDistance) ==
    LET positions == existingPositions(b)
    IN  IF positions = {}
        THEN [x |-> 0, y |-> 0]
        ELSE IF hasNaN(positions)
        THEN [x |-> 0, y |-> 0]
        ELSE spiralSearch(positions, minDistance, 0, minDistance, 0)

----------------------------------------------------------------------------
(* spawnPlayerPieces *)

Piece(type, x, y, color, playerId) ==
    [type |-> type, x |-> x, y |-> y, color |-> color, playerId |-> playerId]

(* mutant: the king is placed on the cell of the bishop next to it *)
formationKingOnBishop(x, y, playerColor, playerId) ==
    << Piece("rook",   x - 3, y, playerColor, playerId),
       Piece("knight", x - 2, y, playerColor, playerId),
       Piece("bishop", x - 1, y, playerColor, playerId),
       Piece("queen",  x,     y, playerColor, playerId),
       Piece("bishop", x + 2, y, playerColor, playerId),
       Piece("king",   x + 2, y, playerColor, playerId),
       Piece("knight", x + 3, y, playerColor, playerId),
       Piece("rook",   x + 4, y, playerColor, playerId) >>
    \o [i \in 1 .. 8 |-> Piece("pawn", x - 4 + i, y + 1, playerColor, playerId)]

(* mutant: king and queen change places *)
formationKingQueenSwapped(x, y, playerColor, playerId) ==
    << Piece("rook",   x - 3, y, playerColor, playerId),
       Piece("knight", x - 2, y, playerColor, playerId),
       Piece("bishop", x - 1, y, playerColor, playerId),
       Piece("king",   x,     y, playerColor, playerId),
       Piece("queen",  x + 1, y, playerColor, playerId),
       Piece("bishop", x + 2, y, playerColor, playerId),
       Piece("knight", x + 3, y, playerColor, playerId),
       Piece("rook",   x + 4, y, playerColor, playerId) >>
    \o [i \in 1 .. 8 |-> Piece("pawn", x - 4 + i, y + 1, playerColor, playerId)]

(* the pieces array (lines 121-140), in source order *)
formation(x, y, playerColor, playerId) ==
    << Piece("rook",   x - 3, y, playerColor, playerId),
       Piece("knight", x - 2, y, playerColor, playerId),
       Piece("bishop", x - 1, y, playerColor, playerId),
       Piece("queen",  x,     y, playerColor, playerId),
       Piece("king",   x + 1, y, playerColor, playerId),
       Piece("bishop", x + 2, y, playerColor, playerId),
       Piece("knight", x + 3, y, playerColor, playerId),
       Piece("rook",   x + 4, y, playerColor, playerId),
       Piece("pawn",   x - 3, y + 1, playerColor, playerId),
       Piece("pawn",   x - 2, y + 1, playerColor, playerId),
       Piece("pawn",   x - 1, y + 1, playerColor, playerId),
       Piece("pawn",   x,     y + 1, playerColor, playerId),
       Piece("pawn",   x + 1, y + 1, playerColor, playerId),
       Piece("pawn",   x + 2, y + 1, playerColor, playerId),
       Piece("pawn",   x + 3, y + 1, playerColor, playerId),
       Piece("pawn",   x + 4, y + 1, playerColor, playerId) >>

(* pieces.forEach(piece => gameState.board.set(`${piece.x},${piece.y}`, piece)) *)
RECURSIVE addPieces(_, _, _)
addPieces(b, pieces, i) ==
    IF i > Len(pieces) THEN b
    ELSE addPieces(MapSet(b, Key(pieces[i].x, pieces[i].y), pieces[i]), pieces, i + 1)

(* the board after spawnPlayerPieces, and the spawn position it used *)
spawnPlayerPieces(b, playerId, playerColor) ==
    LET spawnPos == findSpawnPosition(b, SPAWN_MIN_DISTANCE)
    IN  [spawnPos |-> spawnPos,
         board    |-> addPieces(b, formation(spawnPos.x, spawnPos.y, playerColor, playerId), 1)]

----------------------------------------------------------------------------
(* ChessGame: the move validator *)

Abs(n) == IF n < 0 THEN -n ELSE n

Sign(n) == IF n = 0 THEN 0 ELSE IF n < 0 THEN -1 ELSE 1

(* validatePawnMove: one cardinal step onto an empty cell or an opponent *)
validatePawnMove(piece, dx, dy, boardState, fromX, fromY) ==
    IF (Abs(dx) = 1 /\ Abs(dy) = 0) \/ (Abs(dx) = 0 /\ Abs(dy) = 1)
    THEN LET targetKey == Key(fromX + dx, fromY + dy)
         IN  \/ targetKey \notin DOMAIN boardState
             \/ boardState[targetKey].playerId # piece.playerId
    ELSE FALSE

validateKnightMove(adx, ady) == (adx = 2 /\ ady = 1) \/ (adx = 1 /\ ady = 2)

(* mutant: the king may stay where it is *)
validateKingMoveZero(adx, ady) == adx <= 1 /\ ady <= 1

validateKingMove(adx, ady) == adx <= 1 /\ ady <= 1 /\ adx + ady > 0

(* mutant: only the first cell of the path is looked at *)
pathBlockedFirstCell(boardState, currentX, currentY, toX, toY, stepX, stepY) ==
    IF currentX # toX \/ currentY # toY
    THEN Key(currentX, currentY) \in DOMAIN boardState
    ELSE FALSE

(* the while loop of validateLinearMove: TRUE when a cell before the target is occupied *)
RECURSIVE pathBlocked(_, _, _, _, _, _, _)
pathBlocked(boardState, currentX, currentY, toX, toY, stepX, stepY) ==
    IF currentX # toX \/ currentY # toY
    THEN IF Key(currentX, currentY) \in DOMAIN boardState
         THEN TRUE
         ELSE pathBlocked(boardState, currentX + stepX, currentY + stepY, toX, toY, stepX, stepY)
    ELSE FALSE

(* validateLinearMove; the piece at the origin is read from the board *)
validateLinearMove(dx, dy, boardState, fromX, fromY, toX, toY) ==
    LET stepX == Sign(dx)
        stepY == Sign(dy)
    IN  IF pathBlocked(boardState, fromX + stepX, fromY + stepY, toX, toY, stepX, stepY)
        THEN FALSE
        ELSE \/ Key(toX, toY) \notin DOMAIN boardState
             \/ boardState[Key(toX, toY)].playerId # boardState[Key(fromX, fromY)].playerId

validateRookMove(dx, dy, boardState, fromX, fromY, toX, toY) ==
    IF dx # 0 /\ dy # 0 THEN FALSE
    ELSE validateLinearMove(dx, dy, boardState, fromX, fromY, toX, toY)

validateBishopMove(dx, dy, boardState, fromX, fromY, toX, toY) ==
    IF Abs(dx) # Abs(dy) THEN FALSE
    ELSE validateLinearMove(dx, dy, boardState, fromX, fromY, toX, toY)

validateQueenMove(dx, dy, boardState, fromX, fromY, toX, toY) ==
    IF dx # 0 /\ dy # 0 /\ Abs(dx) # Abs(dy) THEN FALSE
    ELSE validateLinearMove(dx, dy, boardState, fromX, fromY, toX, toY)

validateMove(piece, fromX, fromY, toX, toY, boardState) ==
    LET dx  == toX - fromX
        dy  == toY - fromY
        adx == Abs(dx)
        ady == Abs(dy)
    IN  CASE piece.type = "pawn"   -> validatePawnMove(piece, dx, dy, boardState, fromX, fromY)
          [] piece.type = "rook"   -> validateRookMove(dx, dy, boardState, fromX, fromY, toX, toY)
          [] piece.type = "knight" -> validateKnightMove(adx, ady)
          [] piece.type = "bishop" -> validateBishopMove(dx, dy, boardState, fromX, fromY, toX, toY)
          [] piece.type = "queen"  -> validateQueenMove(dx, dy, boardState, fromX, fromY, toX, toY)
          [] piece.type = "king"   -> validateKingMove(adx, ady)
          [] OTHER                 -> FALSE

----------------------------------------------------------------------------
(* Inputs of the commands *)

Names == {""}                                   \* playerName; "" takes the default name

MoveCells == { <<-3, 0>>, <<-2, 0>>, <<-3, -25>> }      \* origins named by move-piece

MoveTargets == { <<-2, 0>>, <<-3, -25>> }              \* destinations named by move-piece

SectionBounds == { [minX |-> -3, maxX |-> -2, minY |-> -1, maxY |-> 0] }

----------------------------------------------------------------------------
(* Emission helpers: socket.emit, socket.broadcast.emit, io.emit *)

Open(c) == sockets[c].status = "open"

Msg(c, ev, data) == [to |-> c, ev |-> ev, data |-> data]

NoData == [none |-> TRUE]

emitTo(c, ev, data) == { Msg(c, ev, data) }

broadcastFrom(c, ev, data) == { Msg(o, ev, data) : o \in { oo \in DOMAIN sockets \ {c} : Open(oo) } }

emitAll(ev, data) == { Msg(o, ev, data) : o \in { oo \in DOMAIN sockets : Open(oo) } }

(* Array.from(gameState.board.entries()) ... map(([key, piece]) => ({...piece, x, y})) *)
withKey(b, k) == [b[k] EXCEPT !.x = ParseKey(k).x, !.y = ParseKey(k).y]

----------------------------------------------------------------------------
(* io.on('connection') *)

Connect(c) ==
    /\ sockets[c].status = "none"
    /\ UNCHANGED <<now, verdict, search>>
    /\ sockets' = [sockets EXCEPT ![c] = [status |-> "open", playerId |-> NoPlayer]]
    /\ emitted' = {}
    /\ UNCHANGED <<players, board, nextPlayerIndex, spawnLog>>

(* mutant: the identity is the rank in the registry, so it comes back after a leave *)
uuidv4Reused == Cardinality(DOMAIN players) + 1

(* uuidv4(): a fresh identity for every player created *)
uuidv4 == nextPlayerIndex + 1

(* mutant: every piece of the board is sent, whoever owns it *)
allPieces(b, ps) == { withKey(b, k) : k \in DOMAIN b }

(* activePieces: the board entries whose playerId is a key of the registry, *)
(* each with the coordinates of its key (lines 189-195)                     *)
activePieces(b, ps) ==
    { withKey(b, k) : k \in { kk \in DOMAIN b : /\ b[kk].playerId # NoPlayer
                                                /\ b[kk].playerId \in DOMAIN ps } }

(* mutant: the refusal is sent to every connected client *)
replyGameFullToAll(c) == emitAll("game-full", NoData)

(* socket.emit('game-full') (line 162) *)
replyGameFull(c) == emitTo(c, "game-full", NoData)

(* mutant: the capacity test lets one more player in *)
gameFullOffByOne(ps) == Cardinality(DOMAIN ps) > MAX_PLAYERS

(* gameState.players.size >= MAX_PLAYERS (line 161) *)
gameFull(ps) == Cardinality(DOMAIN ps) >= MAX_PLAYERS

(* mutant: the colorIndex is the number of players registered before the join *)
JoinGameSizeIndex(c, playerName) ==
    /\ Open(c)
    /\ UNCHANGED <<now, verdict, search>>
    /\ IF gameFull(players)
       THEN /\ emitted' = replyGameFull(c)
            /\ UNCHANGED <<sockets, players, board, nextPlayerIndex, spawnLog>>
       ELSE LET playerId    == uuidv4
                playerColor == PLAYER_COLORS(nextPlayerIndex % COLOR_COUNT)
                player      == [id         |-> playerId,
                                socketId   |-> c,
                                name       |-> IF playerName = ""
                                               THEN <<"Player", Cardinality(DOMAIN players) + 1>>
                                               ELSE <<playerName>>,
                                color      |-> playerColor,
                                colorIndex |-> Cardinality(DOMAIN players),
                                isActive   |-> TRUE,
                                joinedAt   |-> now]
            IN  \E newPlayers \in { MapSet(players, playerId, player) },
                   spawned \in { spawnPlayerPieces(board, playerId, playerColor) } :
                    /\ players' = newPlayers
                    /\ nextPlayerIndex' = nextPlayerIndex + 1
                    /\ board' = spawned.board
                    /\ spawnLog' = Append(spawnLog, [playerId |-> playerId,
                                                     x |-> spawned.spawnPos.x,
                                                     y |-> spawned.spawnPos.y])
                    /\ sockets' = [sockets EXCEPT ![c].playerId = playerId]
                    /\ emitted' = emitTo(c, "game-joined",
                                         [playerId |-> playerId, player |-> player,
                                          board |-> activePieces(spawned.board, newPlayers),
                                          players |-> { newPlayers[i] : i \in DOMAIN newPlayers }])
                                   \cup broadcastFrom(c, "player-joined", [player |-> player])

(* socket.on('join-game') *)
JoinGame(c, playerName) ==
    /\ Open(c)
    /\ UNCHANGED <<now, verdict, search>>
    /\ IF gameFull(players)
       THEN /\ emitted' = replyGameFull(c)
            /\ UNCHANGED <<sockets, players, board, nextPlayerIndex, spawnLog>>
       ELSE LET playerId    == uuidv4
                playerColor == PLAYER_COLORS(nextPlayerIndex % COLOR_COUNT)
                player      == [id         |-> playerId,
                                socketId   |-> c,
                                name       |-> IF playerName = ""
                                               THEN <<"Player", Cardinality(DOMAIN players) + 1>>
                                               ELSE <<playerName>>,
                                color      |-> playerColor,
                                colorIndex |-> nextPlayerIndex,
                                isActive   |-> TRUE,
                                joinedAt   |-> now]
            IN  \E newPlayers \in { MapSet(players, playerId, player) },
                   spawned \in { spawnPlayerPieces(board, playerId, playerColor) } :
                    /\ players' = newPlayers
                    /\ nextPlayerIndex' = nextPlayerIndex + 1
                    /\ board' = spawned.board
                    /\ spawnLog' = Append(spawnLog, [playerId |-> playerId,
                                                     x |-> spawned.spawnPos.x,
                                                     y |-> spawned.spawnPos.y])
                    /\ sockets' = [sockets EXCEPT ![c].playerId = playerId]
                    /\ emitted' = emitTo(c, "game-joined",
                                         [playerId |-> playerId, player |-> player,
                                          board |-> activePieces(spawned.board, newPlayers),
                                          players |-> { newPlayers[i] : i \in DOMAIN newPlayers }])
                                   \cup broadcastFrom(c, "player-joined", [player |-> player])

(* mutant: the ownership test is dropped *)
notYourPieceNoOwner(b, fromKey, player) ==
    fromKey \notin DOMAIN b

(* !piece || piece.playerId !== player.id (line 222) *)
notYourPiece(b, fromKey, player) ==
    \/ fromKey \notin DOMAIN b
    \/ b[fromKey].playerId # player.id

(* mutant: the origin entry is not deleted; both keys then hold the one piece object *)
movePieceNoDelete(b, fromKey, toKey, toX, toY) ==
    LET moved == [b[fromKey] EXCEPT !.x = toX, !.y = toY]
    IN  MapSet(MapSet(b, fromKey, moved), toKey, moved)

(* mutant: the captured occupant is put back on the origin cell (a swap) *)
movePieceSwap(b, fromKey, toKey, toX, toY) ==
    LET moved == [b[fromKey] EXCEPT !.x = toX, !.y = toY]
        base  == IF toKey \in DOMAIN b /\ toKey # fromKey
                 THEN MapSet(b, fromKey, [b[toKey] EXCEPT !.x = b[fromKey].x, !.y = b[fromKey].y])
                 ELSE MapDelete(b, fromKey)
    IN  MapSet(base, toKey, moved)

(* mutant: piece.x and piece.y are not updated *)
movePieceStaleXY(b, fromKey, toKey, toX, toY) ==
    MapSet(MapDelete(b, fromKey), toKey, b[fromKey])

(* board.delete(fromKey); piece.x = toX; piece.y = toY; board.set(toKey, piece) *)
movePieceOnBoard(b, fromKey, toKey, toX, toY) ==
    MapSet(MapDelete(b, fromKey), toKey, [b[fromKey] EXCEPT !.x = toX, !.y = toY])

(* mutant: the move is announced with socket.broadcast.emit, the sender left out *)
MovePieceNotToSender(c, fromX, fromY, toX, toY) ==
    /\ Open(c)
    /\ UNCHANGED <<now, verdict, search>>
    /\ UNCHANGED <<sockets, players, nextPlayerIndex, spawnLog>>
    /\ IF sockets[c].playerId \notin DOMAIN players
       THEN /\ emitted' = {}
            /\ UNCHANGED board
       ELSE LET player  == players[sockets[c].playerId]
                fromKey == Key(fromX, fromY)
                toKey   == Key(toX, toY)
            IN  IF notYourPiece(board, fromKey, player)
                THEN /\ emitted' = emitTo(c, "invalid-move", [reason |-> "Not your piece"])
                     /\ UNCHANGED board
                ELSE /\ board' = movePieceOnBoard(board, fromKey, toKey, toX, toY)
                     /\ emitted' = broadcastFrom(c, "piece-moved",
                                                 [playerId |-> player.id,
                                                  fromX |-> fromX, fromY |-> fromY,
                                                  toX |-> toX, toY |-> toY,
                                                  piece |-> board'[toKey]])

(* socket.on('move-piece') *)
MovePiece(c, fromX, fromY, toX, toY) ==
    /\ Open(c)
    /\ UNCHANGED <<now, verdict, search>>
    /\ UNCHANGED <<sockets, players, nextPlayerIndex, spawnLog>>
    /\ IF sockets[c].playerId \notin DOMAIN players
       THEN /\ emitted' = {}
            /\ UNCHANGED board
       ELSE LET player  == players[sockets[c].playerId]
                fromKey == Key(fromX, fromY)
                toKey   == Key(toX, toY)
            IN  IF notYourPiece(board, fromKey, player)
                THEN /\ emitted' = emitTo(c, "invalid-move", [reason |-> "Not your piece"])
                     /\ UNCHANGED board
                ELSE /\ board' = movePieceOnBoard(board, fromKey, toKey, toX, toY)
                     /\ emitted' = emitAll("piece-moved",
                                           [playerId |-> player.id,
                                            fromX |-> fromX, fromY |-> fromY,
                                            toX |-> toX, toY |-> toY,
                                            piece |-> board'[toKey]])

(* mutant: every piece in the rectangle is returned, whoever owns it *)
GetBoardSectionUnfiltered(c, bounds) ==
    /\ Open(c)
    /\ UNCHANGED <<now, verdict, search>>
    /\ LET pieces == { withKey(board, k) :
                         k \in { kk \in DOMAIN board :
                                   /\ ParseKey(kk).x \in bounds.minX .. bounds.maxX
                                   /\ ParseKey(kk).y \in bounds.minY .. bounds.maxY } }
       IN  emitted' = emitTo(c, "board-section", [bounds |-> bounds, pieces |-> pieces])
    /\ UNCHANGED <<sockets, players, board, nextPlayerIndex, spawnLog>>

(* socket.on('get-board-section') *)
GetBoardSection(c, bounds) ==
    /\ Open(c)
    /\ UNCHANGED <<now, verdict, search>>
    /\ LET activePlayerIds == DOMAIN players
           pieces == { withKey(board, k) :
                         k \in { kk \in DOMAIN board :
                                   /\ ParseKey(kk).x \in bounds.minX .. bounds.maxX
                                   /\ ParseKey(kk).y \in bounds.minY .. bounds.maxY
                                   /\ board[kk].playerId # NoPlayer
                                   /\ board[kk].playerId \in activePlayerIds } }
       IN  emitted' = emitTo(c, "board-section", [bounds |-> bounds, pieces |-> pieces])
    /\ UNCHANGED <<sockets, players, board, nextPlayerIndex, spawnLog>>

(* mutant: the pieces of the leaving player are taken off the board *)
DisconnectRemovingPieces(c) ==
    /\ Open(c)
    /\ UNCHANGED <<now, verdict, search>>
    /\ sockets' = [sockets EXCEPT ![c].status = "closed"]
    /\ IF sockets[c].playerId \in DOMAIN players
       THEN /\ players' = MapDelete(players, sockets[c].playerId)
            /\ emitted' = broadcastFrom(c, "player-left", [playerId |-> sockets[c].playerId])
            /\ board' = [k \in { kk \in DOMAIN board : board[kk].playerId # sockets[c].playerId }
                            |-> board[k]]
       ELSE /\ UNCHANGED <<players, board>>
            /\ emitted' = {}
    /\ UNCHANGED <<nextPlayerIndex, spawnLog>>

(* socket.on('disconnect') *)
Disconnect(c) ==
    /\ Open(c)
    /\ UNCHANGED <<now, verdict, search>>
    /\ sockets' = [sockets EXCEPT ![c].status = "closed"]
    /\ IF sockets[c].playerId \in DOMAIN players
       THEN /\ players' = MapDelete(players, sockets[c].playerId)
            /\ emitted' = broadcastFrom(c, "player-left", [playerId |-> sockets[c].playerId])
       ELSE /\ UNCHANGED players
            /\ emitted' = {}
    /\ UNCHANGED <<board, nextPlayerIndex, spawnLog>>

----------------------------------------------------------------------------
(* ChessGame.isValidPosition: Number.isInteger(x) && Number.isInteger(y) *)
isValidPosition(x, y) == x \notin NotIntegers /\ y \notin NotIntegers

(* ChessGame.wouldExposeKing: always false *)
wouldExposeKing(move, boardState, playerId) == FALSE

(* ChessGame.isMoveLegal(move, gameState): the first failing test decides *)
isMoveLegal(move, gameState) ==
    LET fromKey == Key(move.fromX, move.fromY)
    IN  IF fromKey \notin DOMAIN gameState.board
        THEN [valid |-> FALSE, reason |-> "No piece at source position"]
        ELSE IF gameState.board[fromKey].playerId # move.playerId
        THEN [valid |-> FALSE, reason |-> "Not your piece"]
        ELSE IF ~ isValidPosition(move.toX, move.toY)
        THEN [valid |-> FALSE, reason |-> "Invalid target position"]
        ELSE IF ~ validateMove(gameState.board[fromKey], move.fromX, move.fromY,
                               move.toX, move.toY, gameState.board)
        THEN [valid |-> FALSE, reason |-> "Invalid move for this piece"]
        ELSE IF wouldExposeKing(move, gameState.board, move.playerId)
        THEN [valid |-> FALSE, reason |-> "Move would expose king"]
        ELSE [valid |-> TRUE, reason |-> "none"]

----------------------------------------------------------------------------
(* The server: every command of every connection, in any order *)

Init ==
    /\ sockets = [c \in Conns |-> [status |-> "none", playerId |-> NoPlayer]]
    /\ players = EmptyMap
    /\ board = EmptyMap
    /\ nextPlayerIndex = 0
    /\ spawnLog = << >>
    /\ emitted = {}
    /\ now = 0
    /\ verdict = NoVerdict
    /\ search = NoSearch
    /\ inbox = << >>
    /\ client = NoClient

Next ==
    /\ UNCHANGED <<inbox, client>>
    /\ \/ \E c \in Conns : Connect(c)
       \/ \E c \in Conns, playerName \in Names :
             nextPlayerIndex < MaxJoins /\ JoinGame(c, playerName)
       \/ \E c \in Conns, f \in MoveCells, t \in MoveTargets : MovePiece(c, f[1], f[2], t[1], t[2])
       \/ \E c \in Conns, bounds \in SectionBounds : GetBoardSection(c, bounds)
       \/ \E c \in Conns : Disconnect(c)

Spec == Init /\ [][Next]_vars

(* Joins, queries and disconnects only: no piece ever moves *)
NextJoins ==
    /\ UNCHANGED <<inbox, client>>
    /\ \/ \E c \in Conns : Connect(c)
       \/ \E c \in Conns, playerName \in Names :
             nextPlayerIndex < MaxJoinsOnly /\ JoinGame(c, playerName)
       \/ \E c \in Conns, bounds \in SectionBounds : GetBoardSection(c, bounds)
       \/ \E c \in Conns : Disconnect(c)

SpecJoins == Init /\ [][NextJoins]_vars

(* A client that walks its pieces off their spawn cells, one move-piece command *)
(* per piece in formation order, all to one cell next to the first player's set. *)
EvacAnchor == [x |-> 0, y |-> -25]

EvacCells == [i \in 1 .. 16 |->
                LET p == formation(EvacAnchor.x, EvacAnchor.y, "c", 0)[i] IN <<p.x, p.y>>]

EvacTarget == <<0, 2>>

nextAtHome(c, i) ==
    /\ Key(EvacCells[i][1], EvacCells[i][2]) \in DOMAIN board
    /\ board[Key(EvacCells[i][1], EvacCells[i][2])].playerId = sockets[c].playerId
    /\ \A j \in 1 .. (i - 1) :
          ~ ( /\ Key(EvacCells[j][1], EvacCells[j][2]) \in DOMAIN board
              /\ board[Key(EvacCells[j][1], EvacCells[j][2])].playerId = sockets[c].playerId )

NextEvac ==
    /\ UNCHANGED <<inbox, client>>
    /\ \/ \E c \in Conns : Connect(c)
       \/ \E c \in Conns, playerName \in Names :
             nextPlayerIndex < MaxJoinsEvac /\ JoinGame(c, playerName)
       \/ \E c \in Conns, i \in 1 .. 16 :
             /\ nextAtHome(c, i)
             /\ MovePiece(c, EvacCells[i][1], EvacCells[i][2], EvacTarget[1], EvacTarget[2])

SpecEvac == Init /\ [][NextEvac]_vars

(* Clients that send move-piece payloads with a missing or fractional       *)
(* destination field.  They send no join-game once such a payload has been  *)
(* applied.                                                                  *)
MalformedTargets == { <<-2, undefined>>, <<oneAndHalf, 0>>, <<-2, 0>> }

integerKeys(b) == \A k \in DOMAIN b : isValidPosition(ParseKey(k).x, ParseKey(k).y)

NextMalformed ==
    /\ UNCHANGED <<inbox, client>>
    /\ \/ \E c \in Conns : Connect(c)
       \/ \E c \in Conns, playerName \in Names :
             /\ nextPlayerIndex < MaxJoinsMalformed
             /\ integerKeys(board)
             /\ JoinGame(c, playerName)
       \/ \E c \in Conns, f \in MoveCells, t \in MalformedTargets :
             MovePiece(c, f[1], f[2], t[1], t[2])
       \/ \E c \in Conns : Disconnect(c)

SpecMalformed == Init /\ [][NextMalformed]_vars

(* Clients that leave toY out of a move-piece payload and go on joining: a  *)
(* join that finds the key "x,undefined" on the board gets its spawn        *)
(* position from the fallback.                                              *)
FallbackTargets == { <<-2, undefined>>, <<-3, -25>> }

NextFallback ==
    /\ UNCHANGED <<inbox, client>>
    /\ \/ \E c \in Conns : Connect(c)
       \/ \E c \in Conns, playerName \in Names :
             nextPlayerIndex < MaxJoinsFallback /\ JoinGame(c, playerName)
       \/ \E c \in Conns, f \in MoveCells, t \in FallbackTargets :
             MovePiece(c, f[1], f[2], t[1], t[2])

SpecFallback == Init /\ [][NextFallback]_vars

(* The server with time passing between commands, one cooldown period at a *)
(* time.  No handler of the server waits: a handler runs at one instant.    *)
Tick ==
    /\ now < MaxTicks * COOLDOWN_MS
    /\ now' = now + COOLDOWN_MS
    /\ emitted' = {}
    /\ UNCHANGED <<sockets, players, board, nextPlayerIndex, spawnLog, verdict, search>>

NextCooldown ==
    /\ UNCHANGED <<inbox, client>>
    /\ \/ \E c \in Conns : Connect(c)
       \/ \E c \in Conns, playerName \in Names :
             nextPlayerIndex < MaxJoinsCooldown /\ JoinGame(c, playerName)
       \/ \E c \in Conns, f \in MoveCells, t \in MoveTargets : MovePiece(c, f[1], f[2], t[1], t[2])
       \/ Tick

SpecCooldown == Init /\ [][NextCooldown]_vars

(* The ChessGame validator on its own: one call of validateMove per          *)
(* behaviour.  The board given to it holds the moving piece, of player 1, on *)
(* the origin cell and at most one other piece, a pawn of player 1 or 2, on  *)
(* any other cell of the square the destinations are taken from.            *)
PieceTypes == {"pawn", "rook", "knight", "bishop", "queen", "king"}

Deltas == (0 - MaxDelta) .. MaxDelta

OtherCells == (Deltas \X Deltas) \ { <<0, 0>> }

ValidatorBoards(type) ==
    LET alone == MapSet(EmptyMap, Key(0, 0), Piece(type, 0, 0, "a", 1))
    IN  {alone} \cup { MapSet(alone, Key(o[1], o[2]), Piece("pawn", o[1], o[2], "b", owner)) :
                          o \in OtherCells, owner \in {1, 2} }

(* ChessGame.validateMove(piece, fromX, fromY, toX, toY, boardState) called *)
ValidateMove(piece, fromX, fromY, toX, toY, boardState) ==
    /\ verdict' = [fn |-> "validateMove", piece |-> piece,
                   fromX |-> fromX, fromY |-> fromY, toX |-> toX, toY |-> toY,
                   boardState |-> boardState,
                   valid |-> validateMove(piece, fromX, fromY, toX, toY, boardState)]
    /\ UNCHANGED <<sockets, players, board, nextPlayerIndex, spawnLog, emitted, now, search>>

(* ChessGame.isMoveLegal(move, gameState) called *)
IsMoveLegal(move, gameState) ==
    /\ verdict' = [fn |-> "isMoveLegal", move |-> move, gameState |-> gameState,
                   result |-> isMoveLegal(move, gameState)]
    /\ UNCHANGED <<sockets, players, board, nextPlayerIndex, spawnLog, emitted, now, search>>

(* the moves given to isMoveLegal: from the origin cell or the cell above   *)
(* it, by player 1 or 2, to a cell of the square, to (0,5) or to a          *)
(* fractional coordinate                                                    *)
LegalMoves ==
    { [fromX |-> 0, fromY |-> fy, toX |-> t[1], toY |-> t[2], playerId |-> id] :
        fy \in {0, 1}, id \in {1, 2},
        t \in (Deltas \X Deltas) \cup { <<0, 5>>, <<oneAndHalf, 0>> } }

NextValidate ==
    /\ verdict = NoVerdict
    /\ UNCHANGED <<inbox, client>>
    /\ \/ \E type \in PieceTypes, toX \in Deltas, toY \in Deltas :
             \E boardState \in ValidatorBoards(type) :
                 ValidateMove(boardState[Key(0, 0)], 0, 0, toX, toY, boardState)
       \/ \E move \in LegalMoves, type \in {"rook", "knight"} :
             \E boardState \in ValidatorBoards(type) :
                 IsMoveLegal(move, [board |-> boardState])

SpecValidate == Init /\ [][NextValidate]_vars

(* A server that fills up.  Clients arrive one after the other: each one    *)
(* connects, sends join-game and then walks the 16 pieces it was given, in   *)
(* formation order, onto one cell (every step captures the piece left there), *)
(* so the board stays small while the registry grows. The next client        *)
(* arrives when the previous one has finished or has been turned away.  Once  *)
(* the server is full the second client leaves, which lets a client that was *)
(* turned away join after all.                                               *)
ConnsFull == 1 .. MaxConnsFull

InitFull ==
    /\ sockets = [c \in ConnsFull |-> [status |-> "none", playerId |-> NoPlayer]]
    /\ players = EmptyMap
    /\ board = EmptyMap
    /\ nextPlayerIndex = 0
    /\ spawnLog = << >>
    /\ emitted = {}
    /\ now = 0
    /\ verdict = NoVerdict
    /\ search = NoSearch
    /\ inbox = << >>
    /\ client = NoClient

(* the i-th cell of the formation connection c was given by its join *)
homeCell(c, i) ==
    LET a == spawnLog[sockets[c].playerId]
        p == formation(a.x, a.y, "c", 0)[i]
    IN  Key(p.x, p.y)

atHome(c, i) ==
    IF homeCell(c, i) \in DOMAIN board
    THEN board[homeCell(c, i)].playerId = sockets[c].playerId
    ELSE FALSE

finished(c) ==
    IF sockets[c].playerId # NoPlayer
    THEN \A i \in 1 .. 16 : ~ atHome(c, i)
    ELSE \E m \in emitted : m.to = c /\ m.ev = "game-full"

NextFull ==
    /\ UNCHANGED <<inbox, client>>
    /\ \/ \E c \in ConnsFull :
             /\ IF c = 1 THEN TRUE ELSE finished(c - 1)
             /\ Connect(c)
       \/ \E c \in ConnsFull, playerName \in Names :
             /\ sockets[c].playerId = NoPlayer
             /\ JoinGame(c, playerName)
       \/ \E c \in ConnsFull, i \in 1 .. 16 :
             /\ Open(c)
             /\ sockets[c].playerId # NoPlayer
             /\ atHome(c, i)
             /\ \A j \in 1 .. (i - 1) : ~ atHome(c, j)
             /\ MovePiece(c, ParseKey(homeCell(c, i)).x, ParseKey(homeCell(c, i)).y,
                          EvacTarget[1], EvacTarget[2])
       \/ \E c \in ConnsFull :
             /\ c = 2
             /\ gameFull(players)
             /\ Disconnect(c)

SpecFull == InitFull /\ [][NextFull]_vars

----------------------------------------------------------------------------
(* findSpawnPosition run one loop iteration at a time.                      *)

(* mutant: the loop test is attempts <= maxAttempts *)
spiralContinuesOneMore(attempts) == attempts <= maxAttempts

(* while (attempts < maxAttempts) (line 68) *)
spiralContinues(attempts) == attempts < maxAttempts

(* lines 47-66: collect the positions, return (0,0) if there are none, set  *)
(* up the loop variables                                                    *)
FindSpawnPosition(b, minDistance) ==
    /\ search.phase = "idle"
    /\ search' = IF existingPositions(b) = {}
                 THEN [phase |-> "done", positions |-> {}, minDistance |-> minDistance,
                       attempts |-> 0, scanned |-> 0, result |-> [x |-> 0, y |-> 0]]
                 ELSE [phase |-> "spiral", positions |-> existingPositions(b),
                       minDistance |-> minDistance,
                       angle |-> 0, radius |-> minDistance, attempts |-> 0]
    /\ UNCHANGED <<sockets, players, board, nextPlayerIndex, spawnLog, emitted, now, verdict>>

(* lines 68-90: the loop test and one pass through the body of the while,   *)
(* or the set-up of the fallback (lines 93-94) when the test fails          *)
SpiralIteration ==
    /\ search.phase = "spiral"
    /\ search' =
         IF ~ spiralContinues(search.attempts)
         THEN [phase |-> "fallback", positions |-> search.positions,
               minDistance |-> search.minDistance, attempts |-> search.attempts,
               scanned |-> 0, bestPosition |-> [x |-> 0, y |-> 0], maxMinDistance |-> 0]
         ELSE LET x == RoundMul(search.radius, Cos8[search.angle + 1])
                  y == RoundMul(search.radius, Sin8[search.angle + 1])
              IN  IF /\ ~ hasNaN(search.positions)
                     /\ validPosition(x, y, search.positions, search.minDistance)
                  THEN [phase |-> "done", positions |-> search.positions,
                        minDistance |-> search.minDistance, attempts |-> search.attempts,
                        scanned |-> 0, result |-> [x |-> x, y |-> y]]
                  ELSE IF search.angle + 1 >= AnglesPerTurn
                       THEN [search EXCEPT !.angle = 0,
                                           !.radius = @ + radiusStep(search.minDistance),
                                           !.attempts = @ + 1]
                       ELSE [search EXCEPT !.angle = @ + 1, !.attempts = @ + 1]
    /\ UNCHANGED <<sockets, players, board, nextPlayerIndex, spawnLog, emitted, now, verdict>>

(* lines 96-113: one pass through the body of the inner for, or the return  *)
(* of bestPosition when both loops are through                              *)
FallbackIteration ==
    /\ search.phase = "fallback"
    /\ \E cands \in { fallbackCandidates(search.minDistance) } :
          search' =
            IF search.scanned >= Len(cands)
            THEN [phase |-> "done", positions |-> search.positions,
                  minDistance |-> search.minDistance, attempts |-> search.attempts,
                  scanned |-> search.scanned, result |-> search.bestPosition]
            ELSE LET c == cands[search.scanned + 1]
                 IN  IF /\ ~ hasNaN(search.positions)
                        /\ minDistanceToExisting(c.x, c.y, search.positions)
                              > search.maxMinDistance
                     THEN [search EXCEPT !.scanned = @ + 1, !.bestPosition = c,
                              !.maxMinDistance =
                                  minDistanceToExisting(c.x, c.y, search.positions)]
                     ELSE [search EXCEPT !.scanned = @ + 1]
    /\ UNCHANGED <<sockets, players, board, nextPlayerIndex, spawnLog, emitted, now, verdict>>

(* the 16 cells the spiral visits at one radius *)
ring(radius) ==
    { Key(RoundMul(radius, Cos8[a]), RoundMul(radius, Sin8[a])) : a \in 1 .. AnglesPerTurn }

(* the boards the search is run on: empty, one piece on the origin, pieces  *)
(* on some or on all cells of the first ring, and a board with a key whose  *)
(* second part is not numeric (left by a move-piece without toY)            *)
SearchBoards ==
    { [k \in cells |-> [type |-> "pawn", playerId |-> 1, color |-> PLAYER_COLORS(0),
                        x |-> k[1], y |-> k[2]]] :
        cells \in { {}, {Key(0, 0)}, {Key(0, 0), Key(25, 0), Key(23, 10)},
                    {Key(0, 0)} \cup ring(SPAWN_MIN_DISTANCE),
                    {Key(-2, undefined)}, {Key(0, 0), Key(-2, undefined)} } }

NextSearch ==
    /\ UNCHANGED <<inbox, client>>
    /\ \/ \E b \in SearchBoards : FindSpawnPosition(b, SPAWN_MIN_DISTANCE)
       \/ SpiralIteration
       \/ FallbackIteration

(* a call that has started is not abandoned: the handler runs to its return *)
SpecSearch == Init /\ [][NextSearch]_vars /\ WF_vars(NextSearch)

(* pieces moved onto every ninth ring of the spiral, out to its last ring:  *)
(* each of the 10000 cells the spiral visits is within 22 of one of them    *)
blockers == UNION { ring(45 * j) : j \in 1 .. 70 }

(* the search on boards on which the spiral finds no cell: one with the     *)
(* blockers, one with a key whose second part is not numeric                *)
BlockedBoards ==
    { [k \in cells |-> [type |-> "pawn", playerId |-> 1, color |-> PLAYER_COLORS(0),
                        x |-> k[1], y |-> k[2]]] :
        cells \in { blockers, {Key(0, 0), Key(-2, undefined)} } }

NextScan ==
    /\ UNCHANGED <<inbox, client>>
    /\ \/ \E b \in BlockedBoards : FindSpawnPosition(b, SPAWN_MIN_DISTANCE)
       \/ SpiralIteration
       \/ FallbackIteration

SpecScan == Init /\ [][NextScan]_vars

----------------------------------------------------------------------------
(* The browser of one connection: Chess2App (its socket handlers), GameUI   *)
(* (the players list) and GameBoard (the local pieces, the selection, the   *)
(* cooldown).  socket.io hands a connection its messages in the order they  *)
(* were emitted; inbox is that queue.                                       *)

Observed == 1

(* gameBoard and ui exist: both are made by initGame *)
inGame(cl) == cl.currentPlayer # null

me(cl) == CHOOSE p \in cl.currentPlayer : TRUE

(* GameBoard.loadBoardPieces: pieces.clear(), then set(`${x},${y}`, piece) *)
loadBoardPieces(boardData) ==
    [ k \in { Key(p.x, p.y) : p \in boardData } |->
        CHOOSE p \in boardData : Key(p.x, p.y) = k ]

(* GameUI.init: players.set(player.id, player) for each initial player *)
initPlayers(initialPlayers) ==
    [ id \in { p.id : p \in initialPlayers } |->
        CHOOSE p \in initialPlayers : p.id = id ]

(* on 'game-joined': currentPlayer = data.player; initGame makes a new      *)
(* GameBoard and a new GameUI                                               *)
onGameJoined(cl, data) ==
    [NoClient EXCEPT !.currentPlayer = {data.player},
                     !.pieces = loadBoardPieces(data.board),
                     !.players = initPlayers(data.players)]

(* on 'player-joined': if (this.ui) this.ui.addPlayer(player) *)
onPlayerJoined(cl, data) ==
    IF inGame(cl)
    THEN [cl EXCEPT !.players = MapSet(@, data.player.id, data.player)]
    ELSE cl

(* mutant: the player stays in the list *)
onPlayerLeftIgnored(cl, data) == cl

(* on 'player-left': if (this.ui) this.ui.removePlayer(playerId) *)
onPlayerLeft(cl, data) ==
    IF inGame(cl)
    THEN [cl EXCEPT !.players = MapDelete(@, data.playerId)]
    ELSE cl

(* GameBoard.hidePawnActions *)
hidePawnActions(cl) == [cl EXCEPT !.selectedPawnForDuplication = null]

(* GameBoard.deselectPiece *)
deselectPiece(cl) ==
    hidePawnActions([cl EXCEPT !.selectedPiece = null, !.validMoves = {}])

(* GameBoard.startCooldown(durationMs); the timer is CooldownTimer *)
startCooldown(cl, durationMs) ==
    deselectPiece([cl EXCEPT !.isOnCooldown = TRUE, !.cooldownEndTime = now + durationMs])

(* GameBoard.handlePieceMoved *)
handlePieceMoved(cl, moveData) ==
    LET fromKey == Key(moveData.fromX, moveData.fromY)
        toKey   == Key(moveData.toX, moveData.toY)
        moved   == [cl EXCEPT !.pieces = MapSet(MapDelete(@, fromKey), toKey, moveData.piece)]
    IN  IF moveData.playerId = me(cl).id
        THEN startCooldown(moved, COOLDOWN_MS)
        ELSE moved

(* GameBoard.updateBoardSection: pieces.set(`${x},${y}`, piece) for each piece *)
updateBoardSection(cl, data) ==
    [cl EXCEPT !.pieces =
        [ k \in (DOMAIN cl.pieces) \cup { Key(p.x, p.y) : p \in data.pieces } |->
            IF \E p \in data.pieces : Key(p.x, p.y) = k
            THEN CHOOSE p \in data.pieces : Key(p.x, p.y) = k
            ELSE cl.pieces[k] ]]

(* Chess2App.setupGameSocketEvents: the handler of each event *)
receive(cl, m) ==
    CASE m.ev = "game-joined"   -> onGameJoined(cl, m.data)
      [] m.ev = "player-joined" -> onPlayerJoined(cl, m.data)
      [] m.ev = "player-left"   -> onPlayerLeft(cl, m.data)
      [] m.ev = "piece-moved"   -> IF inGame(cl) THEN handlePieceMoved(cl, m.data) ELSE cl
      [] m.ev = "board-section" -> IF inGame(cl) THEN updateBoardSection(cl, m.data) ELSE cl
      [] OTHER                  -> cl

(* the browser handles the next message of its queue *)
Deliver ==
    /\ inbox # << >>
    /\ client' = receive(client, Head(inbox))
    /\ inbox' = Tail(inbox)
    /\ UNCHANGED <<sockets, players, board, nextPlayerIndex, spawnLog, emitted, now,
                   verdict, search>>

(* What the handler that runs in this step emits to the observed connection *)
(* is appended to its queue (a handler emits at most one message to one     *)
(* connection)                                                              *)
Transmit ==
    inbox' = IF \E m \in emitted' : m.to = Observed
             THEN Append(inbox, CHOOSE m \in emitted' : m.to = Observed)
             ELSE inbox

(* The server of Spec with the observed browser behind connection 1 and no  *)
(* more than MaxInFlight messages on their way to it.                       *)
ToBrowser(Handler) ==
    /\ Len(inbox) < MaxInFlight
    /\ Handler
    /\ Transmit
    /\ UNCHANGED client

NextMirror ==
    \/ \E c \in Conns : ToBrowser(Connect(c))
    \/ \E c \in Conns, playerName \in Names :
          nextPlayerIndex < MaxJoinsMirror /\ ToBrowser(JoinGame(c, playerName))
    \/ \E c \in Conns, f \in MoveCells, t \in MoveTargets :
          ToBrowser(MovePiece(c, f[1], f[2], t[1], t[2]))
    \/ \E c \in Conns, bounds \in SectionBounds : ToBrowser(GetBoardSection(c, bounds))
    \/ \E c \in Conns : ToBrowser(Disconnect(c))
    \/ Deliver

SpecMirror == Init /\ [][NextMirror]_vars

(* The same, with move-piece messages that leave toY out. *)
NextMirrorMalformed ==
    \/ \E c \in Conns : ToBrowser(Connect(c))
    \/ \E c \in Conns, playerName \in Names :
          nextPlayerIndex < MaxJoinsMirror /\ ToBrowser(JoinGame(c, playerName))
    \/ \E c \in Conns, f \in MoveCells, t \in FallbackTargets :
          ToBrowser(MovePiece(c, f[1], f[2], t[1], t[2]))
    \/ \E c \in Conns, bounds \in SectionBounds : ToBrowser(GetBoardSection(c, bounds))
    \/ \E c \in Conns : ToBrowser(Disconnect(c))
    \/ Deliver

SpecMirrorMalformed == Init /\ [][NextMirrorMalformed]_vars

----------------------------------------------------------------------------
(* The player at the observed browser: clicks on the board, the duplicate   *)
(* button, and the two timers of GameBoard.                                 *)

DUPLICATION_MS == 15000

(* GameBoard.getPieceAt, as the set of what it returns *)
getPieceAt(cl, x, y) ==
    IF Key(x, y) \in DOMAIN cl.pieces THEN {cl.pieces[Key(x, y)]} ELSE null

adjacent == { d \in (-1 .. 1) \X (-1 .. 1) : d # <<0, 0>> }

(* GameBoard.addLinearMoves: up to 7 cells in each direction, up to and     *)
(* including the first piece if it is an opponent's                         *)
addLinearMoves(cl, x, y, directions) ==
    UNION { { <<x + d[1] * i, y + d[2] * i>> :
                i \in { n \in 1 .. 7 :
                          /\ \A j \in 1 .. n - 1 :
                                getPieceAt(cl, x + d[1] * j, y + d[2] * j) = null
                          /\ \A q \in getPieceAt(cl, x + d[1] * n, y + d[2] * n) :
                                q.playerId # me(cl).id } } : d \in directions }

knightMoves == { <<2, 1>>, <<2, -1>>, <<-2, 1>>, <<-2, -1>>,
                 <<1, 2>>, <<1, -2>>, <<-1, 2>>, <<-1, -2>> }

(* GameBoard.addKnightMoves *)
addKnightMoves(cl, x, y) ==
    { <<x + d[1], y + d[2]>> : d \in
        { m \in knightMoves :
            \A q \in getPieceAt(cl, x + m[1], y + m[2]) : q.playerId # me(cl).id } }

(* GameBoard.calculateValidMoves *)
calculateValidMoves(cl, piece, x, y) ==
    { <<x + d[1], y + d[2]>> : d \in { a \in adjacent : getPieceAt(cl, x + a[1], y + a[2]) = null } }
    \cup
    CASE piece.type = "rook"   ->
            addLinearMoves(cl, x, y, { <<1, 0>>, <<-1, 0>>, <<0, 1>>, <<0, -1>> })
      [] piece.type = "bishop" ->
            addLinearMoves(cl, x, y, { <<1, 1>>, <<-1, 1>>, <<1, -1>>, <<-1, -1>> })
      [] piece.type = "queen"  -> addLinearMoves(cl, x, y, adjacent)
      [] piece.type = "knight" -> addKnightMoves(cl, x, y)
      [] OTHER                 -> {}

(* GameBoard.getAdjacentEmptyTiles *)
getAdjacentEmptyTiles(cl, x, y) ==
    { <<x + d[1], y + d[2]>> : d \in { a \in adjacent : getPieceAt(cl, x + a[1], y + a[2]) = null } }

(* GameBoard.showPawnActions, on a page that has the pawn-actions panel *)
showPawnActions(cl, piece, x, y) ==
    [cl EXCEPT !.selectedPawnForDuplication = {[piece |-> piece, x |-> x, y |-> y]}]

(* GameBoard.selectPiece *)
selectPiece(cl, piece, x, y) ==
    LET selected == hidePawnActions(
                      [cl EXCEPT !.selectedPiece = {[piece |-> piece, x |-> x, y |-> y]},
                                 !.validMoves = calculateValidMoves(cl, piece, x, y)])
    IN  IF /\ piece.type = "pawn"
           /\ ~ cl.isOnCooldown
           /\ Key(x, y) \notin DOMAIN cl.duplicatingPawns
        THEN showPawnActions(selected, piece, x, y)
        ELSE selected

(* GameBoard.handleMouseDown reaches tryMovePiece and tryMovePiece emits *)
emitsMove(cl, x, y, button) ==
    /\ button = 0
    /\ ~ cl.isOnCooldown
    /\ getPieceAt(cl, x, y) = null
    /\ cl.selectedPiece # null
    /\ <<x, y>> \in cl.validMoves

(* GameBoard.handleMouseDown, all but the move that tryMovePiece emits *)
handleMouseDown(cl, x, y, button) ==
    LET piece == getPieceAt(cl, x, y)
    IN  IF button = 0
        THEN IF cl.isOnCooldown THEN cl
             ELSE IF \E q \in piece : q.playerId = me(cl).id
             THEN IF Key(x, y) \in DOMAIN cl.duplicatingPawns
                  THEN cl
                  ELSE selectPiece(cl, CHOOSE q \in piece : TRUE, x, y)
             ELSE IF piece # null THEN hidePawnActions(cl)
             ELSE IF cl.selectedPiece # null
             THEN IF <<x, y>> \in cl.validMoves THEN deselectPiece(cl) ELSE cl
             ELSE hidePawnActions(cl)
        ELSE IF button = 2 THEN deselectPiece(cl)
        ELSE cl

(* a mouse button goes down on the cell (x, y) of the board; a move that    *)
(* tryMovePiece emits is handled by the server in the same step             *)
HandleMouseDown(x, y, button) ==
    /\ inGame(client)
    /\ client' = handleMouseDown(client, x, y, button)
    /\ IF emitsMove(client, x, y, button)
       THEN /\ Len(inbox) < MaxInFlight
            /\ \E sp \in client.selectedPiece : MovePiece(Observed, sp.x, sp.y, x, y)
            /\ Transmit
       ELSE UNCHANGED <<sockets, players, board, nextPlayerIndex, spawnLog, emitted, now,
                        verdict, search, inbox>>

(* GameBoard.startPawnDuplication; its timer is CompletePawnDuplication *)
startPawnDuplication(cl) ==
    IF cl.selectedPawnForDuplication = null \/ cl.isOnCooldown THEN cl
    ELSE LET sel     == CHOOSE q \in cl.selectedPawnForDuplication : TRUE
             pawnKey == Key(sel.x, sel.y)
             adjacentTiles == getAdjacentEmptyTiles(cl, sel.x, sel.y)
         IN  IF pawnKey \in DOMAIN cl.duplicatingPawns \/ adjacentTiles = {} THEN cl
             ELSE hidePawnActions(
                    [cl EXCEPT !.duplicatingPawns =
                        MapSet(@, pawnKey, [endTime |-> now + DUPLICATION_MS,
                                            adjacentTiles |-> adjacentTiles,
                                            pawnData |-> sel])])

(* the duplicate button is clicked *)
StartPawnDuplication ==
    /\ inGame(client)
    /\ client' = startPawnDuplication(client)
    /\ UNCHANGED <<sockets, players, board, nextPlayerIndex, spawnLog, emitted, now,
                   verdict, search, inbox>>

(* GameBoard.completePawnDuplication, run by the timer of the pawn: it      *)
(* emits duplicate-pawn with pawnData.x, pawnData.y and one of the adjacent *)
(* tiles, which the server has no handler for                               *)
CompletePawnDuplication(pawnKey) ==
    /\ pawnKey \in DOMAIN client.duplicatingPawns
    /\ now >= client.duplicatingPawns[pawnKey].endTime
    /\ client' = startCooldown([client EXCEPT !.duplicatingPawns = MapDelete(@, pawnKey)],
                               COOLDOWN_MS)
    /\ UNCHANGED <<sockets, players, board, nextPlayerIndex, spawnLog, emitted, now,
                   verdict, search, inbox>>

(* the timer set by startCooldown *)
CooldownTimer ==
    /\ client.isOnCooldown
    /\ now >= client.cooldownEndTime
    /\ client' = [client EXCEPT !.isOnCooldown = FALSE, !.cooldownEndTime = 0]
    /\ UNCHANGED <<sockets, players, board, nextPlayerIndex, spawnLog, emitted, now,
                   verdict, search, inbox>>

timerSet == client.isOnCooldown \/ DOMAIN client.duplicatingPawns # {}

timerDue ==
    \/ client.isOnCooldown /\ now >= client.cooldownEndTime
    \/ \E k \in DOMAIN client.duplicatingPawns : now >= client.duplicatingPawns[k].endTime

(* a cooldown period passes while a timer is set (the clock is read by the  *)
(* timers only); a timer that is due runs first                             *)
TickClient ==
    /\ now < MaxTicksClient * COOLDOWN_MS
    /\ timerSet
    /\ ~ timerDue
    /\ now' = now + COOLDOWN_MS
    /\ UNCHANGED <<sockets, players, board, nextPlayerIndex, spawnLog, emitted,
                   verdict, search, inbox, client>>

ClickCells == { <<-3, 1>>, <<-2, 1>>, <<-3, 2>> }   \* two pawns of the first player and the empty cell behind one
Buttons == { 0, 2 }

NextClient ==
    \/ ToBrowser(Connect(Observed))
    \/ \E playerName \in Names :
          nextPlayerIndex < MaxJoinsClient /\ ToBrowser(JoinGame(Observed, playerName))
    \/ \E bounds \in SectionBounds : inGame(client) /\ ToBrowser(GetBoardSection(Observed, bounds))
    \/ Deliver
    \/ \E f \in ClickCells, button \in Buttons : HandleMouseDown(f[1], f[2], button)
    \/ StartPawnDuplication
    \/ \E pawnKey \in DOMAIN client.duplicatingPawns : CompletePawnDuplication(pawnKey)
    \/ CooldownTimer
    \/ TickClient

SpecClient == Init /\ [][NextClient]_vars

----------------------------------------------------------------------------
(* Vocabulary of the properties *)

Cell(f) == Key(f[1], f[2])

Owned(b, id) == { k \in DOMAIN b : b[k].playerId = id }

OfType(b, id, type) == { k \in Owned(b, id) : b[k].type = type }

Recorded(b, k) == <<b[k].x, b[k].y>>

(* the step is a successful join: a player was created *)
JoinedStep == nextPlayerIndex' = nextPlayerIndex + 1

(* the spawn position and the identity of the player created by the step *)
NewAnchor == spawnLog'[Len(spawnLog')]

(* the step is the move-piece command f -> t of connection c, and it was applied *)
AcceptedMove(c, f, t) ==
    /\ \E m \in emitted' : m.ev = "piece-moved"
    /\ MovePiece(c, f[1], f[2], t[1], t[2])

(* the n-th cell of the spiral traversal, n = 0, 1, ...: the angle advances  *)
(* by a sixteenth of a turn from 0 and the radius grows by the step after   *)
(* each full turn                                                           *)
spiralCandidate(n, minDistance) ==
    LET radius == minDistance + radiusStep(minDistance) * (n \div AnglesPerTurn)
    IN  [x |-> RoundMul(radius, Cos8[(n % AnglesPerTurn) + 1]),
         y |-> RoundMul(radius, Sin8[(n % AnglesPerTurn) + 1])]

(* cell p is far enough from every piece of board b *)
FarFromAll(p, b, minDistance) ==
    \A k \in DOMAIN b :
        b[k].playerId # NoPlayer
           => DistSq(p.x, p.y, k[1], k[2]) >= minDistance * minDistance

AnchorsApart(a, b) == DistSq(a.x, a.y, b.x, b.y) >= SPAWN_MIN_DISTANCE * SPAWN_MIN_DISTANCE

----------------------------------------------------------------------------
(* C1: in every reachable state no two pieces of the board occupy the same  *)
(* coordinate: two different board entries never record the same position.  *)
OccupancyInvariant ==
    \A k1 \in DOMAIN board : \A k2 \in DOMAIN board :
        k1 # k2 => Recorded(board, k1) # Recorded(board, k2)

(* two players have joined, pieces have moved and one was captured *)
OccupancyWitness ==
    /\ Len(spawnLog) = 2
    /\ Cardinality(DOMAIN board) < 32
    /\ \E m \in emitted : m.ev = "piece-moved"

(* C2: a move-piece command changes the board only if the origin cell holds *)
(* a piece whose playerId is the playerId bound to the sending socket.      *)
OnlyOwnerMoves ==
    [][ \A c \in Conns, f \in MoveCells, t \in MoveTargets :
          (board' # board /\ MovePiece(c, f[1], f[2], t[1], t[2]))
             => /\ Cell(f) \in DOMAIN board
                /\ sockets[c].playerId # NoPlayer
                /\ board[Cell(f)].playerId = sockets[c].playerId ]_vars

(* a joined player's command was answered with invalid-move while every cell *)
(* it could name held a piece: the piece named was another player's          *)
OnlyOwnerWitness ==
    \E m \in emitted :
        /\ m.ev = "invalid-move"
        /\ sockets[m.to].playerId \in DOMAIN players
        /\ \A f \in MoveCells : Cell(f) \in DOMAIN board
        /\ \E f \in MoveCells : board[Cell(f)].playerId # sockets[m.to].playerId
        /\ \E f \in MoveCells : board[Cell(f)].playerId = sockets[m.to].playerId

(* C3: every move the server applies is a legal move of the moving piece's  *)
(* type, with every strictly intermediate cell empty for rook, bishop, queen *)
(* (stated for moves that name two different cells).                         *)
LegalDelta(type, dx, dy) ==
    CASE type = "pawn"   -> Abs(dx) + Abs(dy) = 1
      [] type = "knight" -> <<Abs(dx), Abs(dy)>> \in { <<2, 1>>, <<1, 2>> }
      [] type = "king"   -> Abs(dx) <= 1 /\ Abs(dy) <= 1 /\ <<dx, dy>> # <<0, 0>>
      [] type = "rook"   -> (dx = 0) # (dy = 0)
      [] type = "bishop" -> Abs(dx) = Abs(dy) /\ dx # 0
      [] type = "queen"  -> ((dx = 0) # (dy = 0)) \/ (Abs(dx) = Abs(dy) /\ dx # 0)
      [] OTHER           -> FALSE

Between(f, t) ==
    LET dx == t[1] - f[1]
        dy == t[2] - f[2]
        n  == IF Abs(dx) > Abs(dy) THEN Abs(dx) ELSE Abs(dy)
    IN  { Key(f[1] + i * Sign(dx), f[2] + i * Sign(dy)) : i \in 1 .. (n - 1) }

OnlyLegalMoves ==
    [][ \A c \in Conns, f \in MoveCells, t \in MoveTargets :
          (f # t /\ AcceptedMove(c, f, t))
             => /\ LegalDelta(board[Cell(f)].type, t[1] - f[1], t[2] - f[2])
                /\ board[Cell(f)].type \in {"rook", "bishop", "queen"}
                      => Between(f, t) \cap DOMAIN board = {} ]_vars

(* C4: an accepted move leaves the number of pieces unchanged when the       *)
(* destination was empty and lowers it by one when the destination held an  *)
(* opposing piece; the mover ends on the destination, the origin is empty   *)
(* and no other entry changes.                                               *)
MoveConservation ==
    [][ \A c \in Conns, f \in MoveCells, t \in MoveTargets :
          AcceptedMove(c, f, t)
             => LET fk == Cell(f)
                    tk == Cell(t)
                    empty    == tk \notin DOMAIN board
                    opposing == tk \in DOMAIN board /\ board[tk].playerId # board[fk].playerId
                IN  /\ empty => Cardinality(DOMAIN board') = Cardinality(DOMAIN board)
                    /\ opposing => Cardinality(DOMAIN board') = Cardinality(DOMAIN board) - 1
                    /\ (empty \/ opposing)
                          => /\ DOMAIN board' = (DOMAIN board \ {fk}) \cup {tk}
                             /\ board'[tk].type = board[fk].type
                             /\ board'[tk].playerId = board[fk].playerId
                             /\ board'[tk].color = board[fk].color
                             /\ \A k \in DOMAIN board' \ {tk} : board'[k] = board[k] ]_vars

(* the first player's piece has just been moved onto the second player's    *)
(* rook cell, and the second player is one piece short                       *)
MoveConservationWitness ==
    /\ Len(spawnLog) = 2
    /\ \E m \in emitted :
          /\ m.ev = "piece-moved"
          /\ m.data.playerId = spawnLog[1].playerId
          /\ <<m.data.toX, m.data.toY>> = <<-3, -25>>
          /\ <<m.data.fromX, m.data.fromY>> # <<-3, -25>>
    /\ Cardinality(Owned(board, spawnLog[1].playerId)) = 16
    /\ Cardinality(Owned(board, spawnLog[2].playerId)) = 15

(* C5: a move-piece command onto a cell that holds another piece of the     *)
(* same owner is rejected and leaves the board unchanged.                    *)
NoSelfCapture ==
    [][ \A c \in Conns, f \in MoveCells, t \in MoveTargets :
          ( /\ MovePiece(c, f[1], f[2], t[1], t[2])
            /\ f # t
            /\ Cell(f) \in DOMAIN board
            /\ Cell(t) \in DOMAIN board
            /\ board[Cell(t)].playerId = board[Cell(f)].playerId )
             => /\ board' = board
                /\ ~ \E m \in emitted' : m.ev = "piece-moved" ]_vars

(* C6: with joins only, every two spawn positions are at least the minimum  *)
(* spawn distance apart.                                                     *)
SpawnSeparation ==
    \A i \in 1 .. Len(spawnLog) : \A j \in 1 .. Len(spawnLog) :
        i < j => AnchorsApart(spawnLog[i], spawnLog[j])

(* three players have been placed, the second exactly at the minimum distance *)
SpawnSeparationWitness ==
    /\ Len(spawnLog) >= 3
    /\ DistSq(spawnLog[1].x, spawnLog[1].y, spawnLog[2].x, spawnLog[2].y)
          = SPAWN_MIN_DISTANCE * SPAWN_MIN_DISTANCE

(* C7: at every successful join the new spawn position is at least the      *)
(* minimum spawn distance from the spawn position of every active player.   *)
SpawnFarFromActiveAnchors ==
    [][ JoinedStep
          => \A i \in 1 .. Len(spawnLog) :
                spawnLog[i].playerId \in DOMAIN players
                   => AnchorsApart(NewAnchor, spawnLog[i]) ]_vars

(* C8: a join processed while no player is active spawns at (0,0).          *)
OriginWhenNoActivePlayer ==
    [][ (JoinedStep /\ DOMAIN players = {})
          => (NewAnchor.x = 0 /\ NewAnchor.y = 0) ]_vars

(* C9: the first join on an empty board spawns at (0,0) and creates exactly *)
(* 16 pieces with the king on (1,0); every join places the canonical        *)
(* formation at the same offsets around its own spawn position.             *)
BackRow == <<"rook", "knight", "bishop", "queen", "king", "bishop", "knight", "rook">>

CanonicalFormation ==
    [][ JoinedStep
          => LET a  == NewAnchor
                 id == NewAnchor.playerId
             IN  /\ \A i \in 1 .. 8 :
                       /\ Key(a.x - 4 + i, a.y) \in DOMAIN board'
                       /\ board'[Key(a.x - 4 + i, a.y)].type = BackRow[i]
                       /\ board'[Key(a.x - 4 + i, a.y)].playerId = id
                       /\ Key(a.x - 4 + i, a.y + 1) \in DOMAIN board'
                       /\ board'[Key(a.x - 4 + i, a.y + 1)].type = "pawn"
                       /\ board'[Key(a.x - 4 + i, a.y + 1)].playerId = id
                 /\ DOMAIN board = {}
                       => /\ a.x = 0 /\ a.y = 0
                          /\ Cardinality(DOMAIN board') = 16
                          /\ board'[Key(1, 0)].type = "king" ]_vars

(* a second player has just been placed, after the first at (0,0) *)
CanonicalFormationWitness ==
    /\ Len(spawnLog) = 2
    /\ <<spawnLog[1].x, spawnLog[1].y>> = <<0, 0>>
    /\ \E m \in emitted : m.ev = "game-joined" /\ m.data.playerId = spawnLog[2].playerId
    /\ Key(spawnLog[2].x + 1, spawnLog[2].y) \in DOMAIN board
    /\ board[Key(spawnLog[2].x + 1, spawnLog[2].y)].type = "king"

(* C10: right after a successful join the new player owns exactly 16 pieces: *)
(* 8 pawns, 2 rooks, 2 knights, 2 bishops, 1 queen and 1 king.                *)
FullSetAtJoin ==
    [][ JoinedStep
          => LET id == NewAnchor.playerId
             IN  /\ Cardinality(Owned(board', id)) = 16
                 /\ Cardinality(OfType(board', id, "pawn")) = 8
                 /\ Cardinality(OfType(board', id, "rook")) = 2
                 /\ Cardinality(OfType(board', id, "knight")) = 2
                 /\ Cardinality(OfType(board', id, "bishop")) = 2
                 /\ Cardinality(OfType(board', id, "queen")) = 1
                 /\ Cardinality(OfType(board', id, "king")) = 1 ]_vars

(* a player has just joined a board on which pieces had already moved *)
FullSetAtJoinWitness ==
    \E m \in emitted :
        /\ m.ev = "game-joined"
        /\ Cardinality(Owned(board, m.data.playerId)) = 16
        /\ Len(spawnLog) = 2
        /\ Cardinality(Owned(board, spawnLog[1].playerId)) < 16

(* C11: in every reachable state the number of players in the registry is   *)
(* at most MAX_PLAYERS.                                                       *)
RegistryWithinCapacity == Cardinality(DOMAIN players) <= MAX_PLAYERS

(* the registry is full and one more join-game has just been turned away *)
RegistryWithinCapacityWitness ==
    /\ Cardinality(DOMAIN players) = MAX_PLAYERS
    /\ \E m \in emitted : m.ev = "game-full"

(* C12: a join-game processed while the registry holds MAX_PLAYERS players  *)
(* is answered with game-full to the sender and to nobody else, and changes *)
(* nothing: no player is created, no piece is added, nextPlayerIndex is not *)
(* consumed, no socket is bound and no player-joined is sent.               *)
FullJoinChangesNothing ==
    [][ \A c \in ConnsFull, playerName \in Names :
          (Cardinality(DOMAIN players) = MAX_PLAYERS /\ JoinGame(c, playerName))
             => /\ players' = players
                /\ board' = board
                /\ nextPlayerIndex' = nextPlayerIndex
                /\ sockets' = sockets
                /\ emitted' = { Msg(c, "game-full", NoData) } ]_vars

(* the 101st client has just been turned away while the 100 players admitted *)
(* before it are still connected, and the 100 color indexes are used up      *)
FullJoinWitness ==
    /\ nextPlayerIndex = MAX_PLAYERS
    /\ Cardinality(DOMAIN players) = MAX_PLAYERS
    /\ \E m \in emitted :
          /\ m.ev = "game-full"
          /\ sockets[m.to].playerId = NoPlayer
          /\ Cardinality({ o \in DOMAIN sockets \ {m.to} : Open(o) }) = MAX_PLAYERS

(* C13: a join-game command from a connection that has already joined       *)
(* creates no additional player and spawns no additional pieces.            *)
NoSecondJoin ==
    [][ \A c \in Conns, playerName \in Names :
          ( /\ sockets[c].playerId # NoPlayer
            /\ \E m \in emitted' : m.to = c /\ m.ev \in {"game-joined", "game-full"}
            /\ JoinGame(c, playerName) )
             => /\ players' = players
                /\ board' = board ]_vars

(* C14: in every reachable state every player of the registry is bound to a *)
(* connection that is still connected: once a connection has disconnected,  *)
(* no player created by it remains registered.                               *)
RegisteredPlayersConnected ==
    \A id \in DOMAIN players : Open(players[id].socketId)

CarriesPieces(m) ==
    \/ m.ev \in {"piece-moved", "game-joined"}
    \/ m.ev = "board-section" /\ m.data.pieces # {}

UnjoinedGetsNothing ==
    [][ \A c \in Conns :
          ( /\ sockets[c].playerId = NoPlayer
            /\ \/ \E f \in MoveCells, t \in MoveTargets : MovePiece(c, f[1], f[2], t[1], t[2])
               \/ \E bounds \in SectionBounds : GetBoardSection(c, bounds) )
             => /\ UNCHANGED <<sockets, players, board, nextPlayerIndex>>
                /\ \A m \in emitted' : ~ CarriesPieces(m) ]_vars

(* C17: get-board-section(bounds) is answered with exactly the pieces of    *)
(* the board whose coordinate lies in [minX,maxX] x [minY,maxY], bounds      *)
(* included, and whose owner is in the registry at the time of the query:   *)
(* no piece outside the bounds, no piece of a player that has left, and no  *)
(* in-bounds piece of an active player is missing.                          *)
InBounds(x, y, bounds) ==
    /\ bounds.minX <= x /\ x <= bounds.maxX
    /\ bounds.minY <= y /\ y <= bounds.maxY

JoinedResponseExact ==
    [][ JoinedStep
          => \E m \in emitted' :
                /\ m.ev = "game-joined"
                /\ \A o \in emitted' : o.ev = "game-joined" => o = m
                /\ sockets'[m.to].playerId = m.data.playerId
                /\ m.data.playerId = NewAnchor.playerId
                /\ \A p \in m.data.board :
                      /\ Key(p.x, p.y) \in DOMAIN board'
                      /\ p = board'[Key(p.x, p.y)]
                      /\ p.playerId \in DOMAIN players'
                /\ \A k \in DOMAIN board' :
                      board'[k].playerId \in DOMAIN players' => board'[k] \in m.data.board
                /\ Cardinality({ p \in m.data.board : p.playerId = m.data.playerId }) = 16
                /\ m.data.players = { players'[id] : id \in DOMAIN players' }
                /\ m.data.player \in m.data.players
                /\ m.data.player.id = m.data.playerId ]_vars

(* a player has just joined a board that still holds the pieces of a player *)
(* that has left: the response lists fewer pieces than the board holds      *)
JoinedResponseWitness ==
    \E m \in emitted :
        /\ m.ev = "game-joined"
        /\ Cardinality(m.data.board) < Cardinality(DOMAIN board)
        /\ \E k \in DOMAIN board : board[k].playerId \notin DOMAIN players
        /\ \E p \in m.data.board : p.playerId = m.data.playerId

(* the move-piece command of connection c names a piece of its own player *)
OwnsOrigin(c, f) ==
    /\ sockets[c].playerId \in DOMAIN players
    /\ Cell(f) \in DOMAIN board
    /\ board[Cell(f)].playerId = sockets[c].playerId

(* C19: every accepted move-piece results in exactly one piece-moved event  *)
(* for every connected client, the sender included and wherever the move    *)
(* happened, and in none for a client that is not connected; a rejected     *)
(* move-piece results in no piece-moved event at all.                       *)
MovedToEveryone ==
    [][ \A c \in Conns, f \in MoveCells, t \in MoveTargets :
          MovePiece(c, f[1], f[2], t[1], t[2])
             => IF OwnsOrigin(c, f)
                THEN /\ \A o \in Conns :
                          Cardinality({ m \in emitted' : m.to = o /\ m.ev = "piece-moved" })
                             = IF Open(o) THEN 1 ELSE 0
                     /\ \A m \in emitted' :
                          /\ m.ev = "piece-moved"
                          /\ <<m.data.fromX, m.data.fromY>> = f
                          /\ <<m.data.toX, m.data.toY>> = t
                ELSE \A m \in emitted' : m.ev # "piece-moved" ]_vars

(* a move far from the first player's pieces has just been announced to the *)
(* mover and to a connected client that has not joined                      *)
MovedToEveryoneWitness ==
    /\ \E m \in emitted :
          /\ m.ev = "piece-moved"
          /\ sockets[m.to].playerId = m.data.playerId
          /\ <<m.data.toX, m.data.toY>> = <<-3, -25>>
    /\ \E m \in emitted :
          /\ m.ev = "piece-moved"
          /\ sockets[m.to].playerId = NoPlayer
    /\ \A o \in Conns : Open(o)

(* C20: every rejected move-piece (the sender has no joined player, there is *)
(* no piece at the origin, or the piece is not the sender's) leaves the board *)
(* and the registry unchanged and is reported with invalid-move to the       *)
(* sending connection and to no other.                                       *)
RejectedMoveReported ==
    [][ \A c \in Conns, f \in MoveCells, t \in MoveTargets :
          (MovePiece(c, f[1], f[2], t[1], t[2]) /\ ~ OwnsOrigin(c, f))
             => /\ board' = board
                /\ players' = players
                /\ \E m \in emitted' : m.to = c /\ m.ev = "invalid-move"
                /\ \A m \in emitted' : m.to = c ]_vars

(* C21: a move-piece command whose coordinates are missing or are not        *)
(* integers is rejected, so in every reachable state every key of the board  *)
(* is a pair of integers.                                                    *)
IntegerBoardKeys == integerKeys(board)

(* C22: after a move of a player has been applied, no further move of that  *)
(* player is applied before one cooldown period has passed: the server      *)
(* never applies two moves of one player at the same instant.               *)
NoMoveWithinCooldown ==
    [][ \A c \in Conns, f \in MoveCells, t \in MoveTargets :
          ( /\ \E m \in emitted : m.ev = "piece-moved" /\ m.data.playerId = sockets[c].playerId
            /\ MovePiece(c, f[1], f[2], t[1], t[2]) )
             => \A m \in emitted' : m.ev # "piece-moved" ]_vars

(* C23: in every reachable state no two players of the registry have the    *)
(* same color.                                                               *)
DistinctActiveColors ==
    \A i \in DOMAIN players : \A j \in DOMAIN players :
        i # j => players[i].color # players[j].color

(* C24: the k-th successful join (counting from 0) creates the player with  *)
(* colorIndex k, and a step that creates no player (a rejected join, a      *)
(* disconnect, a move) leaves the next colorIndex as it was: no index is    *)
(* reused or skipped.                                                        *)
ColorIndexSequence ==
    [][ /\ \A id \in DOMAIN players' \ DOMAIN players :
              /\ players'[id].colorIndex = Len(spawnLog)
              /\ nextPlayerIndex' = Len(spawnLog) + 1
              /\ Len(spawnLog') = Len(spawnLog) + 1
        /\ DOMAIN players' \subseteq DOMAIN players
              => nextPlayerIndex' = nextPlayerIndex /\ spawnLog' = spawnLog ]_vars

(* a client has just joined a server that had been full and that another   *)
(* client has left: it is the 101st player created and has colorIndex 100   *)
ColorIndexWitness ==
    /\ \E c \in DOMAIN sockets : sockets[c].status = "closed"
    /\ \E m \in emitted :
          /\ m.ev = "game-joined"
          /\ m.data.player.colorIndex = MAX_PLAYERS
          /\ Len(spawnLog) = MAX_PLAYERS + 1

(* C25: on a board that holds only the moving piece, validateMove accepts a *)
(* move exactly when its delta matches the rule of the piece type: pawn     *)
(* |dx|+|dy| = 1; knight (2,1) or (1,2); king max(|dx|,|dy|) = 1; rook      *)
(* exactly one of dx, dy zero; bishop |dx| = |dy| # 0; queen either of the  *)
(* last two.  The zero move is rejected for every type.                      *)
LoneBoard(v) == DOMAIN v.boardState = { Key(v.fromX, v.fromY) }

PatternRule ==
    (verdict.fn = "validateMove" /\ LoneBoard(verdict))
       => /\ verdict.valid = LegalDelta(verdict.piece.type,
                                        verdict.toX - verdict.fromX,
                                        verdict.toY - verdict.fromY)
          /\ (verdict.toX = verdict.fromX /\ verdict.toY = verdict.fromY) => ~ verdict.valid

(* a queen alone on the board was allowed a diagonal move of three cells *)
PatternRuleWitness ==
    /\ verdict.fn = "validateMove"
    /\ LoneBoard(verdict)
    /\ verdict.piece.type = "queen"
    /\ verdict.toX - verdict.fromX = 3
    /\ verdict.toY - verdict.fromY = -3
    /\ verdict.valid

(* C26: validateMove rejects a rook, bishop or queen move along a line of    *)
(* the piece whenever a cell strictly between origin and destination is      *)
(* occupied, whoever owns the occupant; the destination cell does not count: *)
(* with the cells between empty, a move onto another player's piece is       *)
(* accepted.                                                                 *)
LinearPathRule ==
    ( /\ verdict.fn = "validateMove"
      /\ verdict.piece.type \in {"rook", "bishop", "queen"}
      /\ LegalDelta(verdict.piece.type, verdict.toX - verdict.fromX, verdict.toY - verdict.fromY) )
       => LET between == Between(<<verdict.fromX, verdict.fromY>>, <<verdict.toX, verdict.toY>>)
              dest    == Key(verdict.toX, verdict.toY)
          IN  /\ between \cap DOMAIN verdict.boardState # {} => ~ verdict.valid
              /\ ( /\ between \cap DOMAIN verdict.boardState = {}
                    /\ dest \in DOMAIN verdict.boardState
                    /\ verdict.boardState[dest].playerId # verdict.piece.playerId )
                     => verdict.valid

(* a bishop was refused a diagonal move of three cells because a pawn of the *)
(* other player stands on the second cell of the diagonal                    *)
LinearPathWitness ==
    /\ verdict.fn = "validateMove"
    /\ verdict.piece.type = "bishop"
    /\ <<verdict.toX, verdict.toY>> = <<-3, 3>>
    /\ Key(-2, 2) \in DOMAIN verdict.boardState
    /\ verdict.boardState[Key(-2, 2)].playerId # verdict.piece.playerId
    /\ ~ verdict.valid

(* C27: for every piece type validateMove rejects a move whose destination  *)
(* holds a piece of the owner of the moving piece, and accepts a move that  *)
(* follows the rule of the type, with the cells between empty, onto an      *)
(* empty cell or onto a piece of another owner.                              *)
DestinationRule ==
    verdict.fn = "validateMove"
       => LET f       == <<verdict.fromX, verdict.fromY>>
              t       == <<verdict.toX, verdict.toY>>
              b       == verdict.boardState
              own     == Cell(t) \in DOMAIN b /\ b[Cell(t)].playerId = verdict.piece.playerId
              clear   == verdict.piece.type \in {"rook", "bishop", "queen"}
                            => Between(f, t) \cap DOMAIN b = {}
          IN  /\ own => ~ verdict.valid
              /\ ( /\ LegalDelta(verdict.piece.type, t[1] - f[1], t[2] - f[2])
                    /\ clear
                    /\ ~ own )
                     => verdict.valid

(* C28: isMoveLegal reports each kind of failure with a reason of its own,  *)
(* tested in the order: no piece at the origin, piece not owned by the      *)
(* requester, rule of the type violated, cell between origin and            *)
(* destination occupied.                                                     *)
ReasonPerFailure ==
    verdict.fn = "isMoveLegal"
       => LET m       == verdict.move
              b       == verdict.gameState.board
              f       == <<m.fromX, m.fromY>>
              t       == <<m.toX, m.toY>>
              noPiece == Cell(f) \notin DOMAIN b
              owned   == ~ noPiece /\ b[Cell(f)].playerId = m.playerId
              integer == isValidPosition(m.toX, m.toY)
              pattern == LegalDelta(b[Cell(f)].type, t[1] - f[1], t[2] - f[2])
              blocked == /\ b[Cell(f)].type \in {"rook", "bishop", "queen"}
                         /\ Between(f, t) \cap DOMAIN b # {}
          IN  /\ noPiece => verdict.result.reason = "No piece at source position"
              /\ (~ noPiece /\ ~ owned) => verdict.result.reason = "Not your piece"
              /\ (owned /\ integer /\ ~ pattern)
                    => verdict.result.reason = "Invalid move for this piece"
              /\ (owned /\ integer /\ pattern /\ blocked)
                    => /\ ~ verdict.result.valid
                       /\ verdict.result.reason
                             \notin { "No piece at source position", "Not your piece",
                                      "Invalid move for this piece" }

(* C29: every command is one atomic step, so under any interleaving of the  *)
(* commands of different connections a move-piece that displaces a piece    *)
(* vacates the origin cell in the step that fills the destination (the      *)
(* piece is never on both, and the board gains no entry), leaves every      *)
(* other cell alone, and a second move-piece naming that origin, from any   *)
(* connection, finds no piece there and is refused.                         *)
OneMoverPerOrigin ==
    [][ \A c \in Conns, f \in MoveCells, t \in MoveTargets :
          (board' # board /\ MovePiece(c, f[1], f[2], t[1], t[2]))
             => /\ Cell(f) \notin DOMAIN board'
                /\ Cell(t) \in DOMAIN board'
                /\ Recorded(board', Cell(t)) = t
                /\ board'[Cell(t)].type = board[Cell(f)].type
                /\ board'[Cell(t)].playerId = board[Cell(f)].playerId
                /\ Cardinality(DOMAIN board') <= Cardinality(DOMAIN board)
                /\ \A k \in DOMAIN board \ {Cell(f), Cell(t)} :
                      k \in DOMAIN board' /\ board'[k] = board[k]
                /\ \A c2 \in Conns :
                      sockets'[c2].playerId \in DOMAIN players'
                         => notYourPiece(board', Cell(f), players'[sockets'[c2].playerId]) ]_vars

(* two connections are bound to two different players, and the move just    *)
(* applied has taken a piece off an origin cell that is now empty           *)
OneMoverWitness ==
    /\ \A c \in Conns : sockets[c].playerId \in DOMAIN players
    /\ \E c1 \in Conns, c2 \in Conns : sockets[c1].playerId # sockets[c2].playerId
    /\ \E m \in emitted :
          /\ m.ev = "piece-moved"
          /\ <<m.data.fromX, m.data.fromY>> # <<m.data.toX, m.data.toY>>
          /\ Cell(<<m.data.fromX, m.data.fromY>>) \notin DOMAIN board

(* C30: every call of findSpawnPosition returns a position, whatever the    *)
(* board holds: the spiral loop runs its body at most maxAttempts (10000)   *)
(* times, the fallback scan looks at no more than its fixed list of         *)
(* candidates, and every call that has started reaches its return.          *)
SearchBounded ==
    /\ search.phase = "spiral" => search.attempts <= maxAttempts
    /\ search.phase = "fallback"
         => /\ search.attempts = maxAttempts
            /\ search.scanned <= Len(fallbackCandidates(search.minDistance))
    /\ search.phase = "done"
         => /\ search.attempts <= maxAttempts
            /\ search.scanned <= Len(fallbackCandidates(search.minDistance))
            /\ isValidPosition(search.result.x, search.result.y)

SearchTerminates ==
    /\ [] SearchBounded
    /\ (search.phase # "idle") ~> (search.phase = "done")

(* a call has returned after the spiral ran out and the fallback scan went  *)
(* through all its candidates                                               *)
SearchTerminatesWitness ==
    /\ search.phase = "done"
    /\ search.attempts = maxAttempts
    /\ search.scanned = Len(fallbackCandidates(search.minDistance))
    /\ search.positions # {}

(* C31: the spawn position of a join is a function of the board alone: on a *)
(* board that holds pieces it is the first cell in spiral traversal order   *)
(* that is at least the minimum distance from every piece, and no earlier   *)
(* cell of the traversal is.                                                *)
FirstInSpiralOrder ==
    [][ (JoinedStep /\ DOMAIN board # {})
          => \E n \in { CHOOSE i \in 0 .. (maxAttempts - 1) :
                          FarFromAll(spiralCandidate(i, SPAWN_MIN_DISTANCE), board,
                                     SPAWN_MIN_DISTANCE) } :
                /\ NewAnchor.x = spiralCandidate(n, SPAWN_MIN_DISTANCE).x
                /\ NewAnchor.y = spiralCandidate(n, SPAWN_MIN_DISTANCE).y
                /\ \A m \in 0 .. (n - 1) :
                      ~ FarFromAll(spiralCandidate(m, SPAWN_MIN_DISTANCE), board,
                                   SPAWN_MIN_DISTANCE) ]_vars

(* the third join was placed on the second ring, after every cell of the    *)
(* first ring had been found too close to a piece                           *)
FirstInSpiralOrderWitness ==
    /\ Len(spawnLog) = 3
    /\ spawnLog[3].x = 30 /\ spawnLog[3].y = 0
    /\ Cardinality(DOMAIN board) = 48

(* C32: a successful join leaves every piece that was on the board where it *)
(* was and adds exactly 16 entries, whichever way the spawn position was    *)
(* found.                                                                   *)
JoinKeepsPieces ==
    [][ JoinedStep
          => /\ \A k \in DOMAIN board : k \in DOMAIN board' /\ board'[k] = board[k]
             /\ Cardinality(DOMAIN board') = Cardinality(DOMAIN board) + 16 ]_vars

(* C33: when the spiral has run out, the position returned is one of the    *)
(* cells the fallback scanned, its minimum distance to the existing         *)
(* positions is the largest of all scanned cells, and it is the first       *)
(* scanned cell with that minimum distance.                                 *)
FallbackReturnsBest ==
    (search.phase = "done" /\ search.attempts = maxAttempts)
       => LET cands == fallbackCandidates(search.minDistance)
              md(i) == minDistanceToExisting(cands[i].x, cands[i].y, search.positions)
          IN  \E i \in DOMAIN cands :
                 /\ search.result = cands[i]
                 /\ ~ hasNaN(search.positions)
                 /\ \A j \in DOMAIN cands : md(j) <= md(i)
                 /\ \A j \in 1 .. (i - 1) : md(j) < md(i)

(* C34: in every reachable state the x and y recorded inside a piece are    *)
(* the coordinate of the key under which the board stores the piece.        *)
RecordedIsKey ==
    \A k \in DOMAIN board : Key(board[k].x, board[k].y) = k

(* a piece that has been moved away from its spawn cell: the last command   *)
(* took it to another cell, where it stands with that cell recorded in it   *)
RecordedIsKeyWitness ==
    \E m \in emitted :
        /\ m.ev = "piece-moved"
        /\ <<m.data.fromX, m.data.fromY>> # <<m.data.toX, m.data.toY>>
        /\ Key(m.data.toX, m.data.toY) \in DOMAIN board
        /\ board[Key(m.data.toX, m.data.toY)].x = m.data.toX
        /\ board[Key(m.data.toX, m.data.toY)].y = m.data.toY
        /\ board[Key(m.data.toX, m.data.toY)].playerId = m.data.playerId

(* the cells of the pieces whose owner is not in the registry *)
Orphaned(b, ps) == { k \in DOMAIN b : b[k].playerId \notin DOMAIN ps }

Quiescent == inbox = << >> /\ Open(Observed) /\ inGame(client)

(* C36: once the observed browser has handled every message sent to it, its *)
(* players list, started from the list of its game-joined message and       *)
(* changed by each player-joined and player-left in the order sent, is      *)
(* exactly the server's registry.                                           *)
ClientRegistryIsServers ==
    Quiescent => client.players = players

(* the browser of the first player has seen a second player join and leave *)
ClientRegistryWitness ==
    /\ Quiescent
    /\ me(client).id = 1
    /\ Len(spawnLog) = 2
    /\ DOMAIN client.players = {1}
    /\ sockets[Observed].playerId = 1

(* C37: once the observed browser has handled every message sent to it,     *)
(* every piece of its local map is on the server's board under the same     *)
(* coordinate, with the same type and the same owner.                       *)
ClientPiecesOnBoard ==
    Quiescent
       => \A k \in DOMAIN client.pieces :
             /\ k \in DOMAIN board
             /\ Key(client.pieces[k].x, client.pieces[k].y) = k
             /\ client.pieces[k].type = board[k].type
             /\ client.pieces[k].playerId = board[k].playerId

(* the step in which the observed browser emits move-piece: the server      *)
(* answers it, and nothing else, with piece-moved or invalid-move           *)
MoveSent ==
    /\ Len(inbox') = Len(inbox) + 1
    /\ inbox'[Len(inbox')].ev \in {"piece-moved", "invalid-move"}

(* a move of the observed browser was accepted and its cooldown has not     *)
(* run out: the cooldown is on, or piece-moved has yet to start it          *)
CoolingDown ==
    \/ client.isOnCooldown
    \/ \E i \in 1 .. Len(inbox) :
          /\ inbox[i].ev = "piece-moved"
          /\ inbox[i].data.playerId = me(client).id

(* C38: after the observed browser has sent a move that the server          *)
(* accepted, it sends no move-piece until the 3-second cooldown of that     *)
(* move has expired.                                                        *)
NoMoveWhileCoolingDown ==
    [][MoveSent => ~ CoolingDown]_vars

(* C39: while the 15-second duplication of a pawn is in progress the        *)
(* observed browser sends no move-piece for that pawn, and when the         *)
(* duplication completes the pawn stands on the cell that duplicate-pawn    *)
(* names.                                                                   *)
DuplicatingPawnStays ==
    [][/\ MoveSent =>
            \A sp \in client.selectedPiece :
               Key(sp.x, sp.y) \notin DOMAIN client.duplicatingPawns
       /\ \A k \in DOMAIN client.duplicatingPawns :
            k \notin DOMAIN client'.duplicatingPawns
               => /\ k \in DOMAIN board
                  /\ board[k].type = "pawn"
                  /\ board[k].playerId = client.duplicatingPawns[k].pawnData.piece.playerId
      ]_vars

====
